---- MODULE Spec2Model ----
(***************************************************************************)
(* Model of scripts/execute_notebooks_ci.py: tag parsing, notebook         *)
(* discovery, the cell filter and the sequential fail-fast driver.         *)
(*                                                                         *)
(* Strings are sequences of code points, so that split, strip, sorted and  *)
(* set(str) act on characters as Python does.  Python values that may be   *)
(* missing or of the wrong type are records [kind, items].                 *)
(***************************************************************************)
EXTENDS Integers, Sequences, FiniteSets, TLC

VARIABLES
    pc,          \* position of the program
    args,        \* argparse namespace: [skip_tags, globs]
    glob_fs,     \* what glob.glob returns for each pattern on this file system
    skip_tags,   \* main: skip_tags / _filter_cells_by_tag: skip_tags argument
    rendered,    \* ",".join(sorted(tags)) of the parsed tags
    reparsed,    \* _parse_tags(rendered)
    notebooks,   \* main: notebooks (result of _iter_notebooks)
    heap,        \* objects by identity: [docs, cells], a document lists its cells by index
    heap0,       \* the heap as it was when _filter_cells_by_tag was entered
    ret,         \* what _filter_cells_by_tag returned (or that it raised)
    idx,         \* number of notebooks the for loop of main has completed
    results,     \* main: results
    out,         \* lines printed on standard output
    err,         \* the uncaught exception or SystemExit message, if any
    status,      \* process exit status, -1 while running
    log          \* calls made to nbformat.read and NotebookClient.execute

vars == <<pc, args, glob_fs, skip_tags, rendered, reparsed, notebooks, heap,
          heap0, ret, idx, results, out, err, status, log>>

-----------------------------------------------------------------------------
(* Bounds *)

MaxLen == 5        \* longest --skip-tags string explored
MaxPatterns == 2   \* most --glob patterns given
MaxMatches == 2    \* most entries one glob.glob call returns
MaxCells == 3      \* most cells in a notebook handed to the filter

-----------------------------------------------------------------------------
(* Characters and strings *)

Tab == 9
Space == 32
Comma == 44
Letters == {97, 98}                      \* "a", "b"
Whitespace == {Tab, Space}               \* what str.strip() removes
Alphabet == Whitespace \cup {Comma} \cup Letters

RECURSIVE StringsUpTo(_)
StringsUpTo(n) ==
    IF n = 0 THEN {<<>>}
    ELSE LET shorter == StringsUpTo(n - 1)
         IN  shorter \cup {Append(s, c) : s \in {t \in shorter : Len(t) = n - 1}, c \in Alphabet}

Range(s) == {s[i] : i \in 1..Len(s)}

\* position of the first sep in s, 0 if there is none
RECURSIVE FindFrom(_, _, _)
FindFrom(s, sep, i) ==
    IF i > Len(s) THEN 0
    ELSE IF s[i] = sep THEN i
    ELSE FindFrom(s, sep, i + 1)

\* str.split(sep): the list of segments between separators, empty ones included
RECURSIVE Split(_, _)
Split(s, sep) ==
    LET k == FindFrom(s, sep, 1)
    IN  IF k = 0 THEN <<s>>
        ELSE <<SubSeq(s, 1, k - 1)>> \o Split(SubSeq(s, k + 1, Len(s)), sep)

RECURSIVE LStrip(_)
LStrip(s) ==
    IF s # <<>> /\ Head(s) \in Whitespace THEN LStrip(Tail(s)) ELSE s

RECURSIVE RStrip(_)
RStrip(s) ==
    IF s # <<>> /\ s[Len(s)] \in Whitespace THEN RStrip(SubSeq(s, 1, Len(s) - 1)) ELSE s

Strip_LeftOnly(s) == LStrip(s)

\* str.strip()
Strip(s) == RStrip(LStrip(s))

\* bool(t.strip()) in the comprehension's condition
NonEmptyTag(t) == Strip(t) # <<>>

\* _parse_tags(value)
ParseTags(value) ==
    IF value = <<>> THEN {}
    ELSE {Strip(t) : t \in {u \in Range(Split(value, Comma)) : NonEmptyTag(u)}}

\* Python's order on str: lexicographic by code point
RECURSIVE StrLess(_, _)
StrLess(a, b) ==
    IF a = <<>> THEN b # <<>>
    ELSE IF b = <<>> THEN FALSE
    ELSE IF Head(a) # Head(b) THEN Head(a) < Head(b)
    ELSE StrLess(Tail(a), Tail(b))

\* sorted(tags)
RECURSIVE Sorted(_)
Sorted(S) ==
    IF S = {} THEN <<>>
    ELSE LET m == CHOOSE x \in S : \A y \in S \ {x} : StrLess(x, y)
         IN  <<m>> \o Sorted(S \ {m})

\* sep.join(list)
RECURSIVE Join(_, _)
Join(list, sep) ==
    IF list = <<>> THEN <<>>
    ELSE IF Len(list) = 1 THEN list[1]
    ELSE list[1] \o <<sep>> \o Join(Tail(list), sep)

\* the canonical rendering of a tag set: comma-joined, sorted, de-duplicated
Render(tags) == Join(Sorted(tags), Comma)

-----------------------------------------------------------------------------
(* The file system seen by glob.glob, Path.resolve and Path.is_file *)

NotebookSuffix == ".ipynb"

\* path strings glob.glob can return
Entries == {"a/b.ipynb", "./a/b.ipynb", "a/c.ipynb", "a/d.txt", "a/e.ipynb"}

\* Path(p).resolve(): the canonical absolute path; two spellings of one file agree
Resolve(p) ==
    CASE p = "a/b.ipynb"   -> [dir |-> "/w/a", stem |-> "b", suffix |-> ".ipynb"]
      [] p = "./a/b.ipynb" -> [dir |-> "/w/a", stem |-> "b", suffix |-> ".ipynb"]
      [] p = "a/c.ipynb"   -> [dir |-> "/w/a", stem |-> "c", suffix |-> ".ipynb"]
      [] p = "a/d.txt"     -> [dir |-> "/w/a", stem |-> "d", suffix |-> ".txt"]
      [] p = "a/e.ipynb"   -> [dir |-> "/w/a", stem |-> "e", suffix |-> ".ipynb"]

\* Path.is_file(): a/e.ipynb is a directory
IsFile(path) == path.stem # "e"

\* Path.name
Name(path) == <<path.stem, path.suffix>>

Patterns == {"p1", "p2"}

RECURSIVE SeqsUpTo(_, _)
SeqsUpTo(S, n) ==
    IF n = 0 THEN {<<>>}
    ELSE LET shorter == SeqsUpTo(S, n - 1)
         IN  shorter \cup {Append(s, x) : s \in {t \in shorter : Len(t) = n - 1}, x \in S}

-----------------------------------------------------------------------------
(* _iter_notebooks *)

\* the first loop: paths.extend(Path(p).resolve() for p in glob.glob(pattern))
RECURSIVE Expand(_, _)
Expand(globs, fs) ==
    IF globs = <<>> THEN <<>>
    ELSE LET found == fs[Head(globs)]
         IN  [i \in 1..Len(found) |-> Resolve(found[i])] \o Expand(Tail(globs), fs)

AlreadySeen_Never(p, seen) == FALSE

\* if p in seen: continue
AlreadySeen(p, seen) == p \in seen

\* p.is_file() and p.suffix == ".ipynb"
IsNotebookFile(p) == IsFile(p) /\ p.suffix = NotebookSuffix

\* the second loop, over the remaining paths
RECURSIVE Dedupe(_, _, _)
Dedupe(paths, seen, ordered) ==
    IF paths = <<>> THEN ordered
    ELSE LET p == Head(paths)
         IN  IF AlreadySeen(p, seen) THEN Dedupe(Tail(paths), seen, ordered)
             ELSE IF IsNotebookFile(p)
                  THEN Dedupe(Tail(paths), seen \cup {p}, Append(ordered, p))
                  ELSE Dedupe(Tail(paths), seen, ordered)

IterNotebooks(globs, fs) == Dedupe(Expand(globs, fs), {}, <<>>)

-----------------------------------------------------------------------------
(* Values shared by the specifications *)

NoArgs == [skip_tags |-> <<>>, globs |-> <<>>]
NoFs == [p \in Patterns |-> <<>>]
NoHeap == [docs |-> <<>>, cells |-> <<>>]
NoRet == [raised |-> "", nb |-> 0, skipped |-> 0]
NoErr == [exc |-> "", at |-> 0, globs |-> <<>>]

-----------------------------------------------------------------------------
(* Specification of _parse_tags and its re-parsing *)

InitTags ==
    /\ pc = "tags"
    /\ args \in {[skip_tags |-> s, globs |-> <<>>] : s \in StringsUpTo(MaxLen)}
    /\ glob_fs = NoFs
    /\ skip_tags = {}
    /\ rendered = <<>>
    /\ reparsed = {}
    /\ notebooks = <<>>
    /\ heap = NoHeap
    /\ heap0 = NoHeap
    /\ ret = NoRet
    /\ idx = 0
    /\ results = <<>>
    /\ out = <<>>
    /\ err = NoErr
    /\ status = -1
    /\ log = <<>>

CallParseTags ==
    /\ pc = "tags"
    /\ skip_tags' = ParseTags(args.skip_tags)
    /\ pc' = "parsed"
    /\ UNCHANGED <<args, glob_fs, rendered, reparsed, notebooks, heap, heap0, ret,
                   idx, results, out, err, status, log>>

RenderTags ==
    /\ pc = "parsed"
    /\ rendered' = Render(skip_tags)
    /\ pc' = "rendered"
    /\ UNCHANGED <<args, glob_fs, skip_tags, reparsed, notebooks, heap, heap0, ret,
                   idx, results, out, err, status, log>>

ReparseTags ==
    /\ pc = "rendered"
    /\ reparsed' = ParseTags(rendered)
    /\ pc' = "reparsed"
    /\ UNCHANGED <<args, glob_fs, skip_tags, rendered, notebooks, heap, heap0, ret,
                   idx, results, out, err, status, log>>

NextTags == CallParseTags \/ RenderTags \/ ReparseTags

SpecTags == InitTags /\ [][NextTags]_vars

\* a trimmed, non-empty piece of value lying between two separators (or the ends)
IsSegment(value, i, j) ==
    /\ 1 <= i /\ i <= j + 1 /\ j <= Len(value)
    /\ (i = 1 \/ value[i - 1] = Comma)
    /\ (j = Len(value) \/ value[j + 1] = Comma)
    /\ \A k \in i..j : value[k] # Comma

IsTrimOf(t, value, i, j) ==
    \E a, b \in i..j :
        /\ a <= b
        /\ t = SubSeq(value, a, b)
        /\ value[a] \notin Whitespace /\ value[b] \notin Whitespace
        /\ \A k \in i..(a - 1) : value[k] \in Whitespace
        /\ \A k \in (b + 1)..j : value[k] \in Whitespace

TagsOfString(value) ==
    {t \in {SubSeq(value, a, b) : a, b \in 1..Len(value)} :
        \E i, j \in 1..Len(value) : IsSegment(value, i, j) /\ IsTrimOf(t, value, i, j)}

\* C10: _parse_tags(s) is the set of distinct non-empty whitespace-trimmed
\* comma-separated segments of s, and parsing the comma-joined sorted rendering
\* of the result gives the same set again.
ParseTagsIdempotent ==
    /\ pc \in {"parsed", "rendered", "reparsed"} => skip_tags = TagsOfString(args.skip_tags)
    /\ pc = "reparsed" => reparsed = skip_tags

\* a string with padded, repeated and empty segments has been parsed and re-parsed
ParseTagsWitness ==
    /\ pc = "reparsed"
    /\ args.skip_tags = <<97, Comma, Space, 97>>
    /\ skip_tags = {<<97>>}
    /\ reparsed = {<<97>>}

\* a string of separators only parses to no tags
ParseTagsEmptyWitness ==
    pc = "reparsed" /\ args.skip_tags = <<Space, Comma, Space, Comma, Space>> /\ skip_tags = {}

-----------------------------------------------------------------------------
(* Specification of _iter_notebooks *)

InitDiscover ==
    /\ pc = "discover"
    /\ glob_fs \in [Patterns -> SeqsUpTo(Entries, MaxMatches)]
    /\ args \in {[skip_tags |-> <<>>, globs |-> g] : g \in SeqsUpTo(Patterns, MaxPatterns)}
    /\ skip_tags = {}
    /\ rendered = <<>>
    /\ reparsed = {}
    /\ notebooks = <<>>
    /\ heap = NoHeap
    /\ heap0 = NoHeap
    /\ ret = NoRet
    /\ idx = 0
    /\ results = <<>>
    /\ out = <<>>
    /\ err = NoErr
    /\ status = -1
    /\ log = <<>>

CallIterNotebooks ==
    /\ pc = "discover"
    /\ notebooks' = IterNotebooks(args.globs, glob_fs)
    /\ pc' = "discovered"
    /\ UNCHANGED <<args, glob_fs, skip_tags, rendered, reparsed, heap, heap0, ret,
                   idx, results, out, err, status, log>>

NextDiscover == CallIterNotebooks

SpecDiscover == InitDiscover /\ [][NextDiscover]_vars

\* the matches, as (pattern position, position within that pattern's matches)
MatchPositions ==
    {km \in (1..Len(args.globs)) \X (1..MaxMatches + 1) :
        km[2] <= Len(glob_fs[args.globs[km[1]]])}

MatchAt(km) == Resolve(glob_fs[args.globs[km[1]]][km[2]])

Earlier(km1, km2) == km1[1] < km2[1] \/ (km1[1] = km2[1] /\ km1[2] < km2[2])

FirstMatch(p) ==
    CHOOSE km \in MatchPositions :
        /\ MatchAt(km) = p
        /\ \A other \in MatchPositions : MatchAt(other) = p => ~Earlier(other, km)

\* C5: the discovered list has no duplicates, holds exactly the matched regular
\* files with the notebook suffix, and orders them by their first match.
DiscoveryDeduplicatedInOrder ==
    pc = "discovered" =>
        /\ \A i, j \in 1..Len(notebooks) : notebooks[i] = notebooks[j] => i = j
        /\ Range(notebooks) =
              {MatchAt(km) : km \in {x \in MatchPositions :
                    IsFile(MatchAt(x)) /\ MatchAt(x).suffix = ".ipynb"}}
        /\ \A i, j \in 1..Len(notebooks) :
              i < j => Earlier(FirstMatch(notebooks[i]), FirstMatch(notebooks[j]))

\* two overlapping patterns: b.ipynb is matched by both, through two spellings
DiscoveryWitness ==
    /\ pc = "discovered"
    /\ args.globs = <<"p1", "p2">>
    /\ glob_fs["p1"] = <<"a/c.ipynb", "a/b.ipynb">>
    /\ glob_fs["p2"] = <<"./a/b.ipynb", "a/d.txt">>
    /\ Len(notebooks) = 2

-----------------------------------------------------------------------------
(* Python values found in a notebook document *)

Absent == [kind |-> "absent", items |-> <<>>]            \* the key is not there
None == [kind |-> "none", items |-> <<>>]
PyList(items) == [kind |-> "list", items |-> items]
PyStr(chars) == [kind |-> "str", items |-> chars]
PyInt(n) == [kind |-> "int", items |-> <<n>>]
PyDict(tags) == [kind |-> "dict", items |-> <<tags>>]     \* a mapping and its "tags" entry
EmptyDict == PyDict(Absent)

TagA == <<97>>
TagB == <<98>>
TagAB == <<97, 98>>
Tags == {TagA, TagB, TagAB}

\* values a cell's "metadata" entry takes in the notebooks explored
MetaVals ==
    {Absent, None, EmptyDict, PyDict(None),
     PyDict(PyList(<<TagA>>)), PyDict(PyList(<<TagB>>)),
     PyDict(PyList(<<TagA, TagB>>)), PyDict(PyList(<<TagAB>>)),
     PyDict(PyStr(TagAB)), PyDict(PyInt(5)),
     PyList(<<TagA>>), PyList(<<>>)}

\* bool(v)
Truthy(v) ==
    CASE v.kind = "none" -> FALSE
      [] v.kind = "dict" -> v.items[1] # Absent
      [] v.kind = "int"  -> v.items[1] # 0
      [] OTHER           -> v.items # <<>>

\* a document object: the fields besides "cells" stand for format version and metadata
Doc(cells) == [nbformat |-> 4, metadata |-> "kernelspec", cells |-> cells]

\* a heap holding one document whose cells have the given metadata values
HeapOf(hasCells, metas) ==
    [docs  |-> <<Doc(IF hasCells THEN PyList([i \in 1..Len(metas) |-> i]) ELSE Absent)>>,
     cells |-> [i \in 1..Len(metas) |-> [metadata |-> metas[i]]]]

-----------------------------------------------------------------------------
(* _filter_cells_by_tag *)

SkipNothing_Never(skip) == FALSE

\* if not skip_tags
SkipNothing(skip) == skip = {}

\* cells = nb.get("cells", [])
CellsOf(doc) == IF doc.cells = Absent THEN <<>> ELSE doc.cells.items

MetaOf_NoDefault(cell) == cell.metadata

\* meta = cell.get("metadata", {}) or {}
MetaOf(cell) ==
    IF cell.metadata = Absent \/ ~Truthy(cell.metadata) THEN EmptyDict ELSE cell.metadata

\* meta.get exists: meta is a mapping
HasGet(meta) == meta.kind = "dict"

\* meta.get("tags", []) or []
TagsEntry(meta) ==
    LET t == meta.items[1]
    IN  IF t = Absent \/ ~Truthy(t) THEN PyList(<<>>) ELSE t

\* set(x) accepts x: x is iterable
Iterable(x) == x.kind \in {"list", "str"}

\* set(x): the elements of a list, the characters of a string
SetOf(x) == IF x.kind = "str" THEN {<<c>> : c \in Range(x.items)} ELSE Range(x.items)

Intersects_Subset(tags, skip) == tags # {} /\ tags \subseteq skip

\* bool(tags.intersection(skip_tags))
Intersects(tags, skip) == tags \cap skip # {}

\* the for loop; acc is [raised, kept, skipped]
RECURSIVE FilterLoop(_, _, _, _)
FilterLoop(h, cells, skip, acc) ==
    IF cells = <<>> THEN acc
    ELSE LET meta == MetaOf(h.cells[Head(cells)])
         IN  IF ~HasGet(meta)
             THEN [acc EXCEPT !.raised = "AttributeError"]
             ELSE IF ~Iterable(TagsEntry(meta))
             THEN [acc EXCEPT !.raised = "TypeError"]
             ELSE IF Intersects(SetOf(TagsEntry(meta)), skip)
             THEN FilterLoop(h, Tail(cells), skip, [acc EXCEPT !.skipped = @ + 1])
             ELSE FilterLoop(h, Tail(cells), skip,
                             [acc EXCEPT !.kept = Append(@, Head(cells))])

StoreCells_Fresh(doc, kept) == [nbformat |-> 0, metadata |-> "", cells |-> PyList(kept)]

\* nb["cells"] = kept
StoreCells(doc, kept) == [doc EXCEPT !.cells = PyList(kept)]

\* _filter_cells_by_tag(nb, skip_tags) on heap h: the heap afterwards and the result
FilterCellsByTag(h, nb, skip) ==
    IF SkipNothing(skip)
    THEN [heap |-> h, raised |-> "", nb |-> nb, skipped |-> 0]
    ELSE LET run == FilterLoop(h, CellsOf(h.docs[nb]), skip,
                               [raised |-> "", kept |-> <<>>, skipped |-> 0])
         IN  IF run.raised # ""
             THEN [heap |-> h, raised |-> run.raised, nb |-> 0, skipped |-> 0]
             ELSE [heap |-> [h EXCEPT !.docs[nb] = StoreCells(@, run.kept)],
                   raised |-> "", nb |-> nb, skipped |-> run.skipped]

-----------------------------------------------------------------------------
(* Specification of _filter_cells_by_tag *)

InitFilter ==
    /\ pc = "filter"
    /\ heap \in {HeapOf(TRUE, m) : m \in SeqsUpTo(MetaVals, MaxCells)} \cup {HeapOf(FALSE, <<>>)}
    /\ heap0 = heap
    /\ skip_tags \in SUBSET Tags
    /\ args = NoArgs
    /\ glob_fs = NoFs
    /\ rendered = <<>>
    /\ reparsed = {}
    /\ notebooks = <<>>
    /\ ret = NoRet
    /\ idx = 0
    /\ results = <<>>
    /\ out = <<>>
    /\ err = NoErr
    /\ status = -1
    /\ log = <<>>

CallFilterCellsByTag ==
    /\ pc = "filter"
    /\ LET r == FilterCellsByTag(heap, 1, skip_tags)
       IN  /\ heap' = r.heap
           /\ ret' = [raised |-> r.raised, nb |-> r.nb, skipped |-> r.skipped]
    /\ pc' = "filtered"
    /\ UNCHANGED <<args, glob_fs, skip_tags, rendered, reparsed, notebooks, heap0,
                   idx, results, out, err, status, log>>

NextFilter == CallFilterCellsByTag

SpecFilter == InitFilter /\ [][NextFilter]_vars

\* the document and cell list the call was given, and the cell list it left
DocBefore == heap0.docs[1]
DocAfter == heap.docs[1]
CellsBefore == IF DocBefore.cells = Absent THEN <<>> ELSE DocBefore.cells.items
CellsAfter == IF DocAfter.cells = Absent THEN <<>> ELSE DocAfter.cells.items

\* a cell as the notebook format has it: metadata is missing, null or a mapping
\* whose "tags" entry is missing, null or a list of strings
ListTags(m) == m.kind = "dict" /\ m.items[1].kind = "list"
WellFormed(m) ==
    \/ m \in {Absent, None}
    \/ m.kind = "dict" /\ m.items[1].kind \in {"absent", "none", "list"}

\* the tag set of a well-formed cell
TagSet(m) == IF ListTags(m) THEN Range(m.items[1].items) ELSE {}

Clear(ref) == TagSet(heap0.cells[ref].metadata) \cap skip_tags = {}

\* C2: with a non-empty skip set the document is left with exactly the cells
\* whose tag set is disjoint from the skip set, in their original order, and the
\* returned count is the number of cells whose tag set meets the skip set.
FilterKeepsExactlyUntagged ==
    (/\ pc = "filtered"
     /\ skip_tags # {}
     /\ \A r \in Range(CellsBefore) : WellFormed(heap0.cells[r].metadata))
    => /\ ret.raised = ""
       /\ DocAfter.cells # Absent
       /\ CellsAfter = SelectSeq(CellsBefore, Clear)
       /\ ret.skipped = Cardinality({i \in 1..Len(CellsBefore) : ~Clear(CellsBefore[i])})
       /\ Len(CellsAfter) + ret.skipped = Len(CellsBefore)

\* three cells, only the second tagged with a skipped tag: cells 1 and 3 remain
FilterWitness ==
    /\ pc = "filtered"
    /\ skip_tags = {TagA}
    /\ Len(CellsBefore) = 3
    /\ heap0.cells[2].metadata = PyDict(PyList(<<TagA, TagB>>))
    /\ CellsAfter = <<1, 3>>
    /\ ret.skipped = 1

\* C7: with an empty skip set the call returns the document object it was given,
\* leaves it and everything else on the heap as it was, and returns count 0.
FilterEmptySkipIsIdentity ==
    (pc = "filtered" /\ skip_tags = {})
    => /\ ret.raised = ""
       /\ ret.nb = 1
       /\ ret.skipped = 0
       /\ heap = heap0

\* a document without a "cells" key went through the empty skip set
FilterEmptySkipWitness ==
    /\ pc = "filtered"
    /\ skip_tags = {}
    /\ DocBefore.cells = Absent
    /\ DocAfter.cells = Absent

\* a document with tagged cells went through the empty skip set
FilterEmptySkipTaggedWitness ==
    /\ pc = "filtered"
    /\ skip_tags = {}
    /\ Len(CellsBefore) = 2
    /\ heap0.cells[1].metadata = PyDict(PyList(<<TagA>>))
    /\ Len(CellsAfter) = 2

\* C8: a call changes nothing but the document's "cells" entry: the other
\* document fields, every cell object and the skip set stay as they were, and
\* the cells left are cells that were there.
FilterFrame ==
    [][pc = "filter" =>
        /\ skip_tags' = skip_tags
        /\ heap'.cells = heap.cells
        /\ Len(heap'.docs) = Len(heap.docs)
        /\ heap'.docs[1].nbformat = heap.docs[1].nbformat
        /\ heap'.docs[1].metadata = heap.docs[1].metadata
        /\ Range(CellsOf(heap'.docs[1])) \subseteq Range(CellsOf(heap.docs[1]))]_vars

\* a call that dropped one cell and kept another
FilterFrameWitness ==
    /\ pc = "filtered"
    /\ skip_tags = {TagB}
    /\ ret.skipped = 1
    /\ Len(CellsAfter) = 1
    /\ heap.cells[CellsAfter[1]].metadata = PyDict(PyList(<<TagA>>))

\* metadata or tags absent or of the wrong type
AbsentOrMalformed(m) == ~ListTags(m)

\* metadata or tags absent or a false value (null, empty)
AbsentOrFalsy(m) ==
    \/ m = Absent
    \/ ~Truthy(m)
    \/ m.kind = "dict" /\ m.items[1].kind # "absent" /\ ~Truthy(m.items[1])

\* C9 as stated: with a non-empty skip set, a cell whose metadata or tags are
\* absent or malformed never makes the call raise and is always kept.
FilterToleratesMalformed ==
    (pc = "filtered" /\ skip_tags # {})
    => /\ ret.raised = ""
       /\ \A r \in Range(CellsBefore) :
             AbsentOrMalformed(heap0.cells[r].metadata) => r \in Range(CellsAfter)

\* C9 amended: with a non-empty skip set, a cell whose metadata or tags are
\* absent or a false value is kept, and such cells never make the call raise:
\* a call raises only on a cell with a true non-mapping metadata or a true
\* non-iterable tags value.
FilterToleratesAbsentOrFalsy ==
    (pc = "filtered" /\ skip_tags # {})
    => /\ ret.raised = "" =>
             \A r \in Range(CellsBefore) :
                 AbsentOrFalsy(heap0.cells[r].metadata) => r \in Range(CellsAfter)
       /\ ret.raised # "" =>
             \E r \in Range(CellsBefore) :
                 LET m == heap0.cells[r].metadata
                 IN  /\ ~AbsentOrFalsy(m)
                     /\ \/ m.kind # "dict"
                        \/ m.items[1].kind \notin {"list", "str"}

\* cells with null metadata, null tags and empty non-mapping metadata were kept
FilterToleratesWitness ==
    /\ pc = "filtered"
    /\ skip_tags = {TagA, TagB}
    /\ ret.raised = ""
    /\ Len(CellsBefore) = 3
    /\ heap0.cells[1].metadata = None
    /\ heap0.cells[2].metadata = PyDict(None)
    /\ heap0.cells[3].metadata = PyList(<<>>)
    /\ CellsAfter = <<1, 2, 3>>

-----------------------------------------------------------------------------
(* main and execute_notebook *)

\* what the runs of main are started with
MainSkipTags == {<<>>, <<97>>, <<Space, 97, Comma, 98>>}

MainFs ==
    {[p \in Patterns |-> IF p = "p1" THEN <<"a/c.ipynb", "a/b.ipynb">>
                                     ELSE <<"./a/b.ipynb", "a/d.txt">>],
     [p \in Patterns |-> IF p = "p1" THEN <<"a/b.ipynb">> ELSE <<"a/c.ipynb">>],
     [p \in Patterns |-> IF p = "p1" THEN <<>> ELSE <<"a/d.txt", "a/e.ipynb">>]}

\* notebook documents nbformat.read may find in a file
DiskDocs ==
    {HeapOf(TRUE, <<PyDict(PyList(<<TagA>>)), Absent, PyDict(PyList(<<TagB>>))>>),
     HeapOf(TRUE, <<None>>),
     HeapOf(TRUE, <<EmptyDict, PyList(<<TagA>>)>>),
     HeapOf(FALSE, <<>>)}

\* elapsed times time.time() - start may come to, in hundredths of a second
Durations == {150, 204, 250}

\* format(x, ".1f"), in tenths of a second
Fmt1(x) == (x + 5) \div 10

PathStr(path) == <<path.dir, path.stem, path.suffix>>

Line(kind, text, n) == [line |-> kind, text |-> text, n |-> n]

Event(ev, i) == [ev |-> ev, i |-> i]

NoNotebooks_Never(nbs) == FALSE

\* if not notebooks
NoNotebooks(nbs) == nbs = <<>>

Total_Last(rs) == IF rs = <<>> THEN 0 ELSE rs[Len(rs)].seconds

\* total = sum(r.seconds for r in results)
RECURSIVE Total(_)
Total(rs) == IF rs = <<>> THEN 0 ELSE Head(rs).seconds + Total(Tail(rs))

\* the summary block
SummaryLines(rs) ==
    <<Line("summary", <<>>, 0)>>
    \o [i \in 1..Len(rs) |-> Line("entry", Name(rs[i].path), Fmt1(rs[i].seconds))]
    \o <<Line("total", <<>>, Fmt1(Total(rs)))>>

InitMain ==
    /\ pc = "main"
    /\ args \in {[skip_tags |-> s, globs |-> g] :
                    s \in MainSkipTags, g \in SeqsUpTo(Patterns, MaxPatterns) \ {<<>>}}
    /\ glob_fs \in MainFs
    /\ skip_tags = {}
    /\ rendered = <<>>
    /\ reparsed = {}
    /\ notebooks = <<>>
    /\ heap = NoHeap
    /\ heap0 = NoHeap
    /\ ret = NoRet
    /\ idx = 0
    /\ results = <<>>
    /\ out = <<>>
    /\ err = NoErr
    /\ status = -1
    /\ log = <<>>

\* main up to the loop: parse the tags, discover, stop if nothing matched
Discover ==
    /\ pc = "main"
    /\ skip_tags' = ParseTags(args.skip_tags)
    /\ notebooks' = IterNotebooks(args.globs, glob_fs)
    /\ IF NoNotebooks(notebooks')
       THEN /\ err' = [exc |-> "SystemExit: No notebooks matched", at |-> 0,
                       globs |-> args.globs]
            /\ status' = 1
            /\ pc' = "exit"
       ELSE /\ pc' = "loop"
            /\ UNCHANGED <<err, status>>
    /\ UNCHANGED <<args, glob_fs, rendered, reparsed, heap, heap0, ret, idx, results,
                   out, log>>

StartNotebook_Silent ==
    /\ pc = "loop"
    /\ idx < Len(notebooks)
    /\ pc' = "read"
    /\ UNCHANGED <<args, glob_fs, skip_tags, rendered, reparsed, notebooks, heap,
                   heap0, ret, idx, results, out, err, status, log>>

\* the loop takes the next notebook and prints its progress line
StartNotebook ==
    /\ pc = "loop"
    /\ idx < Len(notebooks)
    /\ out' = Append(out, Line("executing", PathStr(notebooks[idx + 1]), 0))
    /\ log' = Append(log, Event("progress", idx + 1))
    /\ pc' = "read"
    /\ UNCHANGED <<args, glob_fs, skip_tags, rendered, reparsed, notebooks, heap,
                   heap0, ret, idx, results, err, status>>

\* an exception leaves execute_notebook and main: nothing catches it
Abort(exc) ==
    /\ err' = [exc |-> exc, at |-> idx + 1, globs |-> <<>>]
    /\ status' = 1
    /\ pc' = "exit"

\* execute_notebook: nbformat.read raises
ReadFails ==
    /\ pc = "read"
    /\ log' = Append(log, Event("read", idx + 1))
    /\ \E exc \in {"FileNotFoundError", "NotJSONError"} : Abort(exc)
    /\ UNCHANGED <<args, glob_fs, skip_tags, rendered, reparsed, notebooks, heap,
                   heap0, ret, idx, results, out>>

\* execute_notebook: the notebook is read and filtered, the skip count printed
ReadAndFilter ==
    /\ pc = "read"
    /\ log' = Append(log, Event("read", idx + 1))
    /\ \E doc \in DiskDocs :
          LET r == FilterCellsByTag(doc, 1, skip_tags)
          IN  /\ heap0' = doc
              /\ heap' = r.heap
              /\ ret' = [raised |-> r.raised, nb |-> r.nb, skipped |-> r.skipped]
              /\ IF r.raised # ""
                 THEN /\ Abort(r.raised)
                      /\ out' = out
                 ELSE /\ out' = IF r.skipped # 0
                                THEN Append(out, Line("skipped", Name(notebooks[idx + 1]),
                                                      r.skipped))
                                ELSE out
                      /\ pc' = "execute"
                      /\ UNCHANGED <<err, status>>
    /\ UNCHANGED <<args, glob_fs, skip_tags, rendered, reparsed, notebooks, idx, results>>

ExecuteFails_Continue ==
    /\ pc = "execute"
    /\ log' = Append(log, Event("execute", idx + 1))
    /\ \E exc \in {"CellExecutionError", "CellTimeoutError", "NoSuchKernel"} :
          err' = [exc |-> exc, at |-> idx + 1, globs |-> <<>>]
    /\ idx' = idx + 1
    /\ pc' = "loop"
    /\ UNCHANGED <<args, glob_fs, skip_tags, rendered, reparsed, notebooks, heap,
                   heap0, ret, results, out, status>>

\* execute_notebook: client.execute() raises
ExecuteFails ==
    /\ pc = "execute"
    /\ log' = Append(log, Event("execute", idx + 1))
    /\ \E exc \in {"CellExecutionError", "CellTimeoutError", "NoSuchKernel"} : Abort(exc)
    /\ UNCHANGED <<args, glob_fs, skip_tags, rendered, reparsed, notebooks, heap,
                   heap0, ret, idx, results, out>>

\* execute_notebook: client.execute() returns; main appends the RunResult
ExecuteOk ==
    /\ pc = "execute"
    /\ log' = log \o <<Event("execute", idx + 1), Event("finished", idx + 1)>>
    /\ \E secs \in Durations :
          results' = Append(results, [path |-> notebooks[idx + 1], seconds |-> secs])
    /\ idx' = idx + 1
    /\ pc' = "loop"
    /\ UNCHANGED <<args, glob_fs, skip_tags, rendered, reparsed, notebooks, heap,
                   heap0, ret, out, err, status>>

\* the loop is over: main prints the summary and returns
Summarize ==
    /\ pc = "loop"
    /\ idx = Len(notebooks)
    /\ out' = out \o SummaryLines(results)
    /\ log' = Append(log, Event("summary", 0))
    /\ status' = 0
    /\ pc' = "exit"
    /\ UNCHANGED <<args, glob_fs, skip_tags, rendered, reparsed, notebooks, heap,
                   heap0, ret, idx, results, err>>

Next ==
    \/ Discover
    \/ StartNotebook
    \/ ReadFails
    \/ ReadAndFilter
    \/ ExecuteFails
    \/ ExecuteOk
    \/ Summarize

Init == InitMain

Spec == Init /\ [][Next]_vars

-----------------------------------------------------------------------------
(* Properties of main *)

Failed == err.at > 0

SummaryPrinted ==
    \/ \E k \in 1..Len(out) : out[k].line \in {"summary", "entry", "total"}
    \/ \E k \in 1..Len(log) : log[k].ev = "summary"

ExecutingLines == {k \in 1..Len(out) : out[k].line = "executing"}

\* C1: once execute_notebook has failed on notebook i, the process has ended
\* with a non-zero status, no later notebook has a progress line, a read or an
\* execution, notebook i has no second attempt, no result was recorded for it
\* and no summary is printed, in this and every later state.
FailFast ==
    Failed =>
        /\ pc = "exit"
        /\ status > 0
        /\ \A k \in 1..Len(log) : log[k].i <= err.at
        /\ \A k, m \in 1..Len(log) : (log[k] = log[m]) => k = m
        /\ Len(results) = err.at - 1
        /\ ~SummaryPrinted

\* the first of two notebooks failed in the engine
FailFastWitness ==
    /\ Failed
    /\ Len(notebooks) = 2
    /\ err.at = 1
    /\ err.exc = "CellTimeoutError"
    /\ pc = "exit"

\* the first of two notebooks could not be read
FailFastReadWitness ==
    /\ Failed
    /\ Len(notebooks) = 2
    /\ err.at = 1
    /\ err.exc = "NotJSONError"

\* what a run without failure does, in order
ExpectedLog ==
    [k \in 1..(4 * Len(notebooks) + 1) |->
        IF k = 4 * Len(notebooks) + 1 THEN Event("summary", 0)
        ELSE Event(CASE k % 4 = 1 -> "progress"
                     [] k % 4 = 2 -> "read"
                     [] k % 4 = 3 -> "execute"
                     [] k % 4 = 0 -> "finished",
                   (k + 3) \div 4)]

IsPrefix(a, b) == Len(a) <= Len(b) /\ a = SubSeq(b, 1, Len(a))

SumSeconds(n) ==
    LET sum[k \in 0..n] == IF k = 0 THEN 0 ELSE sum[k - 1] + results[k].seconds
    IN  sum[n]

\* C3: notebooks are handled one at a time in discovery order, each exactly
\* once, a progress line first; a run that ends with status zero has executed
\* all of them and then printed one entry per notebook in discovery order and
\* a total that is the sum of the recorded seconds.
SequentialThenSummary ==
    /\ pc # "main" => IsPrefix(log, ExpectedLog)
    /\ pc # "main" => \A k \in 1..Len(results) : results[k].path = notebooks[k]
    /\ (pc = "exit" /\ ~Failed /\ notebooks # <<>>) =>
          /\ status = 0
          /\ log = ExpectedLog
          /\ Len(results) = Len(notebooks)
          /\ Len(out) >= Len(notebooks) + 2
          /\ LET n == Len(notebooks)
                 tail == SubSeq(out, Len(out) - n - 1, Len(out))
             IN  /\ tail[1].line = "summary"
                 /\ \A k \in 1..n :
                       tail[k + 1] = Line("entry", Name(notebooks[k]),
                                          Fmt1(results[k].seconds))
                 /\ tail[n + 2] = Line("total", <<>>, Fmt1(SumSeconds(n)))
                 /\ \A k \in 1..(Len(out) - n - 2) : out[k].line \in {"executing", "skipped"}
                 /\ Cardinality(ExecutingLines) = n

\* two notebooks ran for 1.5 s and 2.5 s: the total printed is 4.0
SummaryWitness ==
    /\ pc = "exit"
    /\ status = 0
    /\ Len(results) = 2
    /\ results[1].seconds = 150
    /\ results[2].seconds = 250
    /\ out[Len(out)] = Line("total", <<>>, 40)

\* C4: when discovery finds nothing, main ends at once with a non-zero status
\* and a message naming the patterns; nothing is printed, read or executed.
NoMatchIsFatal ==
    (pc # "main" /\ notebooks = <<>>) =>
        /\ pc = "exit"
        /\ status > 0
        /\ err.exc = "SystemExit: No notebooks matched"
        /\ err.globs = args.globs
        /\ out = <<>>
        /\ log = <<>>
        /\ results = <<>>

\* a pattern that matches only a text file and a directory
NoMatchWitness ==
    /\ pc = "exit"
    /\ notebooks = <<>>
    /\ args.globs = <<"p2">>
    /\ glob_fs["p2"] = <<"a/d.txt", "a/e.ipynb">>
    /\ status = 1

\* two notebooks, the first executed, the second failed in the engine
SecondFailsInExecution ==
    /\ Len(notebooks) = 2
    /\ Failed
    /\ err.at = 2
    /\ err.exc \in {"CellExecutionError", "CellTimeoutError", "NoSuchKernel"}

\* C6 as stated: in that run no summary is printed and exactly one
\* "[ci] executing" line is in the output.
OneExecutingLineBeforeFailure ==
    SecondFailsInExecution =>
        /\ ~SummaryPrinted
        /\ Cardinality(ExecutingLines) = 1

\* C6 amended: in that run no summary is printed and exactly two
\* "[ci] executing" lines are in the output, one for each notebook attempted.
TwoExecutingLinesBeforeFailure ==
    SecondFailsInExecution =>
        /\ ~SummaryPrinted
        /\ Cardinality(ExecutingLines) = 2
        /\ \A k \in ExecutingLines :
              out[k].text = PathStr(notebooks[Cardinality({m \in ExecutingLines : m <= k})])

SecondFailsWitness ==
    /\ SecondFailsInExecution
    /\ err.exc = "CellExecutionError"
    /\ Len(results) = 1
    /\ pc = "exit"

====
